---------------------------- MODULE Spec2Model ----------------------------
(***************************************************************************)
(* Model of src/Finance_Optimization_Snippet.py: the lock-guarded keyed    *)
(* store of position records (PortfolioEngine, ThreadSafePortfolioEngine)  *)
(* and the callback-notifying store (DirectMemoryEngine).                   *)
(*                                                                         *)
(* portfolio_map is an ordered dict: a sequence of [key, item] in insertion *)
(* order, item being the fields of the dict object stored under key.       *)
(* Record fields carry English names:                                      *)
(*   ticker = "종목코드"   name = "종목명"    quantity = "보유수량"         *)
(*   buy_price = "매입가"  current_price = "현재가"  change_rate = "등락률"*)
(*   profit_rate = "수익률"  profit_loss = "평가손익"                       *)
(* A float percentage is held as the exact fraction <<num, den>> in lowest *)
(* terms; 0.0 is <<0, 1>>.  The only positive buy price drawn is 2, for    *)
(* which the float quotient price / buy_price is exact.  The summary's     *)
(* total return is the exact quotient, which the float rounds to 53 bits.  *)
(***************************************************************************)
EXTENDS Integers, Sequences, FiniteSets

\* ------------------------------------------------------------- bounds
NumThreads == 2
MaxPrice == 2
MaxBatch == 2
MaxCallbacks == 2

Threads == 1..NumThreads
Callers == {1}
Tickers == {"A", "B"}
Names == {"x", "y"}
Prices == 0..MaxPrice
Rates == {1}
BuyPrices == {-1, 0, 2}
Quantities == {1, 2}
\* The (name, quantity, buy_price) add_stock is called with by the one caller:
\* the positive buy price with either quantity, each buy price <= 0 once.
Positions ==
    {pos \in Names \X Quantities \X BuyPrices :
        \/ pos[3] > 0 /\ pos[1] = "y"
        \/ pos = <<"x", 2, -1>>
        \/ pos = <<"x", 1, 0>>}

VARIABLES
    portfolio_map,  \* self.portfolio_map: sequence of [key, item], insertion order
    lock,           \* self.lock: 0 when free, else the thread inside `with`
    update_callbacks, \* self.update_callbacks: the registered callbacks, in order
    pc,             \* per thread: position in the method it is running
    call,           \* per thread: the method called last and its arguments
    i,              \* per thread: loop position (batch entry, record scanned)
    acc,            \* per thread: get_portfolio_summary's running totals
    ret,            \* per thread: "none", "true", "false" returned by the last call
    refs,           \* per thread: the dict references the last read returned
    summary,        \* per thread: the dict get_portfolio_summary returned
    engine          \* the class of the object: "PortfolioEngine" (the class or its
                    \* subclass ThreadSafePortfolioEngine) or "DirectMemoryEngine"

vars == <<portfolio_map, lock, update_callbacks, pc, call, i, acc, ret, refs, summary,
          engine>>

\* A method of class cls runs on an object of that class, which stays one.
OnEngine(cls) ==
    /\ engine = cls
    /\ UNCHANGED engine

\* ------------------------------------------------------- float values
RECURSIVE GCD(_, _)
GCD(a, b) == IF b = 0 THEN a ELSE GCD(b, a % b)

Abs(n) == IF n < 0 THEN -n ELSE n

\* The fraction n/d (d > 0) in lowest terms.
Ratio(n, d) ==
    LET g == GCD(Abs(n), d) IN <<n \div g, d \div g>>

Zero == <<0, 1>>

\* The rate as it would be if a price of 0 were taken for "no price yet"
ProfitRate_ZeroPriceSkipped(current_price, buy_price) ==
    IF current_price = 0 THEN Zero
    ELSE Ratio((current_price - buy_price) * 100, buy_price)

\* ((current_price / buy_price) - 1) * 100, for buy_price > 0
ProfitRate(current_price, buy_price) ==
    Ratio((current_price - buy_price) * 100, buy_price)

\* (current_price - buy_price) * quantity
ProfitLoss(current_price, buy_price, quantity) ==
    (current_price - buy_price) * quantity

\* ------------------------------------------------------ ordered dict
Range(s) == {s[k] : k \in 1..Len(s)}

Keys(m) == {m[k].key : k \in 1..Len(m)}

Has(m, ticker) == ticker \in Keys(m)

Lookup(m, ticker) == CHOOSE k \in 1..Len(m) : m[k].key = ticker

ItemOf(m, ticker) == m[Lookup(m, ticker)].item

\* m[ticker] = item: an existing key keeps its place, a new key goes last
Put(m, ticker, item) ==
    IF Has(m, ticker)
    THEN [m EXCEPT ![Lookup(m, ticker)].item = item]
    ELSE Append(m, [key |-> ticker, item |-> item])

NewRecord(ticker, name, quantity, buy_price) ==
    [ticker |-> ticker, name |-> name, quantity |-> quantity,
     buy_price |-> buy_price, current_price |-> 0, change_rate |-> 0,
     profit_rate |-> Zero, profit_loss |-> 0]

\* ---------------------------------------------------- dict references
\* A reference to a dict object.  The dict stored under a key is named by the
\* key (live); a dict that has been replaced in the map is reachable only
\* through references handed out earlier, and the reference carries its fields.
\* holder is the thread whose update_and_notify has the replaced dict as its
\* `item` and is still writing it, 0 when there is none: the references with
\* one holder are references to one dict.
NoItem == NewRecord("", "", 0, 0)

LiveRef(ticker) == [live |-> TRUE, key |-> ticker, item |-> NoItem, holder |-> 0]

Deref(m, r) == IF r.live THEN ItemOf(m, r.key) ELSE r.item

\* The references held by callers once m[ticker] is rebound to a new dict.
RetireHeld(rf, m, ticker, w) ==
    [t \in DOMAIN rf |->
        [k \in 1..Len(rf[t]) |->
            IF rf[t][k].live /\ rf[t][k].key = ticker
            THEN [live |-> FALSE, key |-> ticker, item |-> ItemOf(m, ticker),
                  holder |-> w]
            ELSE rf[t][k]]]

\* The same where the replaced dict is no method's `item`: add_stock replaces
\* it under the lock.
Retire(rf, m, ticker) == RetireHeld(rf, m, ticker, 0)

\* ------------------------------------------------------- call frames
NoUpdates == <<>>

NoCall ==
    [op |-> "none", ticker |-> "", name |-> "", quantity |-> 0, buy_price |-> 0,
     price |-> 0, rate |-> 0, updates |-> NoUpdates]

Entry(ticker, price, rate) == [ticker |-> ticker, price |-> price, rate |-> rate]

\* The prices a batch entry carries: two of them, so that two entries for one
\* ticker can differ.
BatchPrices == {1, MaxPrice}

Entries == {Entry(tk, p, r) : tk \in Tickers, p \in BatchPrices, r \in Rates}

RECURSIVE SeqsUpTo(_, _)
SeqsUpTo(S, n) ==
    IF n = 0 THEN {<<>>}
    ELSE LET shorter == SeqsUpTo(S, n - 1)
         IN shorter \cup {Append(s, e) : s \in {x \in shorter : Len(x) = n - 1}, e \in S}

Batches == SeqsUpTo(Entries, MaxBatch)

NoAcc == [total_cost |-> 0, total_value |-> 0, total_profit |-> 0]

NoSummary ==
    [total_cost |-> 0, total_value |-> 0, total_profit |-> 0,
     total_return |-> Zero, count |-> 0]

Init ==
    /\ engine = "PortfolioEngine"
    /\ portfolio_map = <<>>
    /\ lock = 0
    /\ update_callbacks = <<>>
    /\ pc = [t \in Threads |-> "idle"]
    /\ call = [t \in Threads |-> NoCall]
    /\ i = [t \in Threads |-> 0]
    /\ acc = [t \in Threads |-> NoAcc]
    /\ ret = [t \in Threads |-> "none"]
    /\ refs = [t \in Threads |-> <<>>]
    /\ summary = [t \in Threads |-> NoSummary]

\* threading.Lock: free, or held by the thread inside a `with self.lock:` block
LockFree == lock = 0

\* ------------------------------------------------ the methods' effects
\* add_stock as it would be if a ticker already in the store were left alone
AddStockEffect_KeepExisting(m, ticker, name, quantity, buy_price) ==
    IF Has(m, ticker) THEN m
    ELSE Put(m, ticker, NewRecord(ticker, name, quantity, buy_price))

\* add_stock's block: self.portfolio_map[ticker] = {...}
AddStockEffect(m, ticker, name, quantity, buy_price) ==
    Put(m, ticker, NewRecord(ticker, name, quantity, buy_price))

\* get_stock: return self.portfolio_map.get(ticker), the stored dict itself or None
GetStockResult(m, ticker) ==
    IF Has(m, ticker) THEN <<LiveRef(ticker)>> ELSE <<>>

\* get_all_stocks: return list(self.portfolio_map.values()), the stored dicts
GetAllStocksResult(m) == [k \in 1..Len(m) |-> LiveRef(m[k].key)]

\* The price written to the first record of the map instead of ticker's
SetCurrentPrice_First(m, ticker, price) ==
    [m EXCEPT ![1].item.current_price = price]

\* item["현재가"] = current_price
SetCurrentPrice(m, ticker, price) ==
    [m EXCEPT ![Lookup(m, ticker)].item.current_price = price]

\* item["등락률"] = change_rate
SetChangeRate(m, ticker, rate) ==
    [m EXCEPT ![Lookup(m, ticker)].item.change_rate = rate]

\* if buy_price > 0:
BuyPricePositive(m, ticker) == ItemOf(m, ticker).buy_price > 0

\* item["수익률"] = ((current_price / buy_price) - 1) * 100
SetProfitRate(m, ticker, price) ==
    [m EXCEPT ![Lookup(m, ticker)].item.profit_rate =
        ProfitRate(price, ItemOf(m, ticker).buy_price)]

\* The profit and loss written to the quantity field
SetProfitLoss_IntoQuantity(m, ticker, price) ==
    [m EXCEPT ![Lookup(m, ticker)].item.quantity =
        ProfitLoss(price, ItemOf(m, ticker).buy_price, ItemOf(m, ticker).quantity)]

\* item["평가손익"] = (current_price - buy_price) * item["보유수량"]
SetProfitLoss(m, ticker, price) ==
    [m EXCEPT ![Lookup(m, ticker)].item.profit_loss =
        ProfitLoss(price, ItemOf(m, ticker).buy_price, ItemOf(m, ticker).quantity)]

\* update_price as it would be if an unknown ticker were stored instead of skipped
UpdatePriceEffect_Upsert(m, ticker, price, rate) ==
    IF ~Has(m, ticker)
    THEN Append(m, [key |-> ticker,
                    item |-> [NewRecord(ticker, "", 0, 0) EXCEPT
                                 !.current_price = price, !.change_rate = rate]])
    ELSE LET m2 == SetChangeRate(SetCurrentPrice(m, ticker, price), ticker, rate)
         IN IF BuyPricePositive(m2, ticker)
            THEN SetProfitLoss(SetProfitRate(m2, ticker, price), ticker, price)
            ELSE m2

\* update_price as it would be if a buy_price <= 0 gave the price as the rate
UpdatePriceEffect_RateForAnyCost(m, ticker, price, rate) ==
    IF ~Has(m, ticker) THEN m
    ELSE LET m2 == SetChangeRate(SetCurrentPrice(m, ticker, price), ticker, rate)
         IN IF BuyPricePositive(m2, ticker)
            THEN SetProfitLoss(SetProfitRate(m2, ticker, price), ticker, price)
            ELSE [m2 EXCEPT ![Lookup(m2, ticker)].item.profit_rate = <<price * 100, 1>>]

\* update_price's block, start to end
UpdatePriceEffect(m, ticker, price, rate) ==
    IF ~Has(m, ticker) THEN m
    ELSE LET m2 == SetChangeRate(SetCurrentPrice(m, ticker, price), ticker, rate)
         IN IF BuyPricePositive(m2, ticker)
            THEN SetProfitLoss(SetProfitRate(m2, ticker, price), ticker, price)
            ELSE m2

\* update_price's return value
UpdatePriceResult(m, ticker) == IF Has(m, ticker) THEN "true" ELSE "false"

\* The loop body as it would be if it priced every record, not only e's
BatchEntryEffect_AllRecords(m, e) ==
    IF e.ticker \notin Keys(m) THEN m
    ELSE [k \in 1..Len(m) |->
            [m[k] EXCEPT !.item.current_price = e.price, !.item.change_rate = e.rate]]

\* One pass of batch_update_prices' loop body for the entry e
BatchEntryEffect(m, e) ==
    IF e.ticker \notin Keys(m) THEN m
    ELSE LET k == Lookup(m, e.ticker)
             item == m[k].item
             priced == [item EXCEPT !.current_price = e.price, !.change_rate = e.rate]
         IN IF item.buy_price > 0
            THEN [m EXCEPT ![k].item =
                    [priced EXCEPT
                        !.profit_rate = ProfitRate(e.price, item.buy_price),
                        !.profit_loss = ProfitLoss(e.price, item.buy_price, item.quantity)]]
            ELSE [m EXCEPT ![k].item = priced]

\* The loop as it would be if it ran over the entries last to first
RECURSIVE BatchEffect_Reversed(_, _)
BatchEffect_Reversed(m, updates) ==
    IF updates = <<>> THEN m
    ELSE BatchEntryEffect(BatchEffect_Reversed(m, Tail(updates)), Head(updates))

\* batch_update_prices' loop over updates, in list order
RECURSIVE BatchEffect(_, _)
BatchEffect(m, updates) ==
    IF updates = <<>> THEN m
    ELSE BatchEffect(BatchEntryEffect(m, Head(updates)), Tail(updates))

\* One pass of get_portfolio_summary's loop body
SummaryAdd(a, item) ==
    LET cost == item.buy_price * item.quantity
        value == item.current_price * item.quantity
        profit == value - cost
    IN [total_cost |-> a.total_cost + cost,
        total_value |-> a.total_value + value,
        total_profit |-> a.total_profit + profit]

RECURSIVE SummaryScan(_, _, _)
SummaryScan(a, m, k) ==
    IF k > Len(m) THEN a ELSE SummaryScan(SummaryAdd(a, m[k].item), m, k + 1)

\* The total return as it would be guarded by total_cost != 0
TotalReturn_NonZeroGuard(total_value, total_cost) ==
    IF total_cost > 0 THEN Ratio((total_value - total_cost) * 100, total_cost)
    ELSE IF total_cost < 0 THEN Ratio((total_cost - total_value) * 100, -total_cost)
    ELSE Zero

\* ((total_value / total_cost) - 1) * 100 if total_cost > 0 else 0.0
TotalReturn(total_value, total_cost) ==
    IF total_cost > 0 THEN Ratio((total_value - total_cost) * 100, total_cost) ELSE Zero

\* The dict get_portfolio_summary returns
SummaryResult(a, m) ==
    [total_cost |-> a.total_cost, total_value |-> a.total_value,
     total_profit |-> a.total_profit,
     total_return |-> TotalReturn(a.total_value, a.total_cost),
     count |-> Len(m)]

\* --------------------------------------- one caller, one call per step
\* What a call leaves with its caller; the results of the call before are dropped.
Returned(t, c, r, rf, s) ==
    /\ pc[t] = "idle"
    /\ call' = [call EXCEPT ![t] = c]
    /\ ret' = [ret EXCEPT ![t] = r]
    /\ refs' = rf
    /\ summary' = [summary EXCEPT ![t] = s]
    /\ UNCHANGED <<lock, update_callbacks, pc, i, acc>>

AddStock(t) ==
    /\ OnEngine("PortfolioEngine")
    /\ \E tk \in Tickers, pos \in Positions :
        /\ LockFree
        /\ portfolio_map' = AddStockEffect(portfolio_map, tk, pos[1], pos[2], pos[3])
        /\ Returned(t, [NoCall EXCEPT !.op = "add_stock", !.ticker = tk,
                                      !.name = pos[1], !.quantity = pos[2],
                                      !.buy_price = pos[3]],
                    "none",
                    IF Has(portfolio_map, tk)
                    THEN Retire([refs EXCEPT ![t] = <<>>], portfolio_map, tk)
                    ELSE [refs EXCEPT ![t] = <<>>],
                    NoSummary)

\* get_stock as it would be with self.portfolio_map.pop(ticker, None)
GetStock_Pop(t) ==
    /\ OnEngine("PortfolioEngine")
    /\ \E tk \in Tickers :
        LET Keep(e) == e.key # tk IN
        /\ LockFree
        /\ portfolio_map' = SelectSeq(portfolio_map, Keep)
        /\ Returned(t, [NoCall EXCEPT !.op = "get_stock", !.ticker = tk], "none",
                    [refs EXCEPT ![t] =
                        IF Has(portfolio_map, tk)
                        THEN <<[live |-> FALSE, key |-> tk,
                                item |-> ItemOf(portfolio_map, tk), holder |-> 0]>>
                        ELSE <<>>],
                    NoSummary)

GetStock(t) ==
    /\ OnEngine("PortfolioEngine")
    /\ \E tk \in Tickers :
        /\ LockFree
        /\ UNCHANGED portfolio_map
        /\ Returned(t, [NoCall EXCEPT !.op = "get_stock", !.ticker = tk], "none",
                    [refs EXCEPT ![t] = GetStockResult(portfolio_map, tk)], NoSummary)

UpdatePrice(t) ==
    /\ OnEngine("PortfolioEngine")
    /\ \E tk \in Tickers, p \in Prices, r \in Rates :
        /\ LockFree
        /\ portfolio_map' = UpdatePriceEffect(portfolio_map, tk, p, r)
        /\ Returned(t, [NoCall EXCEPT !.op = "update_price", !.ticker = tk,
                                      !.price = p, !.rate = r],
                    UpdatePriceResult(portfolio_map, tk),
                    [refs EXCEPT ![t] = <<>>], NoSummary)

GetAllStocks(t) ==
    /\ OnEngine("PortfolioEngine")
    /\ LockFree
    /\ UNCHANGED portfolio_map
    /\ Returned(t, [NoCall EXCEPT !.op = "get_all_stocks"], "none",
                [refs EXCEPT ![t] = GetAllStocksResult(portfolio_map)], NoSummary)

GetPortfolioSummary(t) ==
    /\ OnEngine("PortfolioEngine")
    /\ LockFree
    /\ UNCHANGED portfolio_map
    /\ Returned(t, [NoCall EXCEPT !.op = "get_portfolio_summary"], "none",
                [refs EXCEPT ![t] = <<>>],
                SummaryResult(SummaryScan(NoAcc, portfolio_map, 1), portfolio_map))

BatchUpdatePrices(t) ==
    /\ OnEngine("PortfolioEngine")
    /\ \E u \in Batches :
        /\ LockFree
        /\ portfolio_map' = BatchEffect(portfolio_map, u)
        /\ Returned(t, [NoCall EXCEPT !.op = "batch_update_prices", !.updates = u],
                    "none", [refs EXCEPT ![t] = <<>>], NoSummary)

Next ==
    \E t \in Callers :
        \/ AddStock(t)
        \/ GetStock(t)
        \/ UpdatePrice(t)
        \/ GetAllStocks(t)
        \/ GetPortfolioSummary(t)
        \/ BatchUpdatePrices(t)

Spec == Init /\ [][Next]_vars

\* ------------------------------- concurrent callers, one step at a time
\* The arguments concurrent callers draw from.
ConcNames == {"x"}
ConcQuantities == {2}
ConcBuyPrices == {2}
\* (price, rate) of a concurrent update_price: the rate tells the prices apart
ConcTicks == {<<1, 1>>, <<MaxPrice, 2>>}
ConcBatches == SeqsUpTo({Entry(tk, MaxPrice, r) : tk \in Tickers, r \in Rates}, MaxBatch)

\* A caller starts a call; the results of its call before are dropped.
Invoke(t, c, label) ==
    /\ call' = [call EXCEPT ![t] = c]
    /\ pc' = [pc EXCEPT ![t] = label]
    /\ i' = [i EXCEPT ![t] = 0]
    /\ acc' = [acc EXCEPT ![t] = NoAcc]
    /\ ret' = [ret EXCEPT ![t] = "none"]
    /\ refs' = [refs EXCEPT ![t] = <<>>]
    /\ summary' = [summary EXCEPT ![t] = NoSummary]
    /\ UNCHANGED <<update_callbacks, portfolio_map, lock>>

\* `with self.lock:` entered: the caller blocks until the lock is free
Acquire(t, from, to) ==
    /\ pc[t] = from
    /\ LockFree
    /\ lock' = t
    /\ pc' = [pc EXCEPT ![t] = to]

\* `with self.lock:` left: the method returns and its frame is gone
Release(t) ==
    /\ lock' = 0
    /\ pc' = [pc EXCEPT ![t] = "idle"]
    /\ call' = [call EXCEPT ![t] = NoCall]
    /\ i' = [i EXCEPT ![t] = 0]
    /\ acc' = [acc EXCEPT ![t] = NoAcc]

\* A step inside the block that moves to the next statement
Goto(t, from, to) ==
    /\ pc[t] = from
    /\ pc' = [pc EXCEPT ![t] = to]

CallAddStock(t) ==
    /\ OnEngine("PortfolioEngine")
    /\ pc[t] = "idle"
    /\ \E tk \in Tickers, n \in ConcNames, q \in ConcQuantities, b \in ConcBuyPrices :
        Invoke(t, [NoCall EXCEPT !.op = "add_stock", !.ticker = tk, !.name = n,
                                 !.quantity = q, !.buy_price = b], "add_lock")

AddStockLock(t) ==
    /\ OnEngine("PortfolioEngine")
    /\ Acquire(t, "add_lock", "add_set")
    /\ UNCHANGED <<update_callbacks, portfolio_map, call, i, acc, ret, refs, summary>>

AddStockSet(t) ==
    /\ OnEngine("PortfolioEngine")
    /\ pc[t] = "add_set"
    /\ portfolio_map' = AddStockEffect(portfolio_map, call[t].ticker, call[t].name,
                                       call[t].quantity, call[t].buy_price)
    /\ refs' = IF Has(portfolio_map, call[t].ticker)
               THEN Retire(refs, portfolio_map, call[t].ticker) ELSE refs
    /\ Release(t)
    /\ UNCHANGED <<update_callbacks, ret, summary>>

CallGetStock(t) ==
    /\ OnEngine("PortfolioEngine")
    /\ pc[t] = "idle"
    /\ \E tk \in Tickers :
        Invoke(t, [NoCall EXCEPT !.op = "get_stock", !.ticker = tk], "get_lock")

GetStockLock(t) ==
    /\ OnEngine("PortfolioEngine")
    /\ Acquire(t, "get_lock", "get_ret")
    /\ UNCHANGED <<update_callbacks, portfolio_map, call, i, acc, ret, refs, summary>>

GetStockReturn(t) ==
    /\ OnEngine("PortfolioEngine")
    /\ pc[t] = "get_ret"
    /\ refs' = [refs EXCEPT ![t] = GetStockResult(portfolio_map, call[t].ticker)]
    /\ Release(t)
    /\ UNCHANGED <<update_callbacks, portfolio_map, ret, summary>>

CallUpdatePrice(t) ==
    /\ OnEngine("PortfolioEngine")
    /\ pc[t] = "idle"
    /\ \E tk \in Tickers, tick \in ConcTicks :
        Invoke(t, [NoCall EXCEPT !.op = "update_price", !.ticker = tk,
                                 !.price = tick[1], !.rate = tick[2]], "upd_lock")

\* update_price as it would be without `with self.lock:`
UpdateLock_NoLock(t) ==
    /\ OnEngine("PortfolioEngine")
    /\ Goto(t, "upd_lock", "upd_check")
    /\ UNCHANGED <<update_callbacks, portfolio_map, lock, call, i, acc, ret, refs, summary>>

UpdateLock(t) ==
    /\ OnEngine("PortfolioEngine")
    /\ Acquire(t, "upd_lock", "upd_check")
    /\ UNCHANGED <<update_callbacks, portfolio_map, call, i, acc, ret, refs, summary>>

\* if ticker not in self.portfolio_map: return False
UpdateAbsent(t) ==
    /\ OnEngine("PortfolioEngine")
    /\ pc[t] = "upd_check"
    /\ ~Has(portfolio_map, call[t].ticker)
    /\ ret' = [ret EXCEPT ![t] = "false"]
    /\ Release(t)
    /\ UNCHANGED <<update_callbacks, portfolio_map, refs, summary>>

UpdatePresent(t) ==
    /\ OnEngine("PortfolioEngine")
    /\ Has(portfolio_map, call[t].ticker)
    /\ Goto(t, "upd_check", "upd_price")
    /\ UNCHANGED <<update_callbacks, portfolio_map, lock, call, i, acc, ret, refs, summary>>

UpdateSetPrice(t) ==
    /\ OnEngine("PortfolioEngine")
    /\ Goto(t, "upd_price", "upd_rate")
    /\ portfolio_map' = SetCurrentPrice(portfolio_map, call[t].ticker, call[t].price)
    /\ UNCHANGED <<update_callbacks, lock, call, i, acc, ret, refs, summary>>

\* item["등락률"] = change_rate, then the test of buy_price
UpdateSetRate(t) ==
    /\ OnEngine("PortfolioEngine")
    /\ pc[t] = "upd_rate"
    /\ portfolio_map' = SetChangeRate(portfolio_map, call[t].ticker, call[t].rate)
    /\ pc' = [pc EXCEPT ![t] = IF BuyPricePositive(portfolio_map, call[t].ticker)
                               THEN "upd_pr" ELSE "upd_ret"]
    /\ UNCHANGED <<update_callbacks, lock, call, i, acc, ret, refs, summary>>

UpdateSetProfitRate(t) ==
    /\ OnEngine("PortfolioEngine")
    /\ Goto(t, "upd_pr", "upd_pl")
    /\ portfolio_map' = SetProfitRate(portfolio_map, call[t].ticker, call[t].price)
    /\ UNCHANGED <<update_callbacks, lock, call, i, acc, ret, refs, summary>>

UpdateSetProfitLoss(t) ==
    /\ OnEngine("PortfolioEngine")
    /\ Goto(t, "upd_pl", "upd_ret")
    /\ portfolio_map' = SetProfitLoss(portfolio_map, call[t].ticker, call[t].price)
    /\ UNCHANGED <<update_callbacks, lock, call, i, acc, ret, refs, summary>>

\* return True
UpdateReturn(t) ==
    /\ OnEngine("PortfolioEngine")
    /\ pc[t] = "upd_ret"
    /\ ret' = [ret EXCEPT ![t] = "true"]
    /\ Release(t)
    /\ UNCHANGED <<update_callbacks, portfolio_map, refs, summary>>

CallGetAllStocks(t) ==
    /\ OnEngine("PortfolioEngine")
    /\ pc[t] = "idle"
    /\ Invoke(t, [NoCall EXCEPT !.op = "get_all_stocks"], "all_lock")

GetAllStocksLock(t) ==
    /\ OnEngine("PortfolioEngine")
    /\ Acquire(t, "all_lock", "all_ret")
    /\ UNCHANGED <<update_callbacks, portfolio_map, call, i, acc, ret, refs, summary>>

GetAllStocksReturn(t) ==
    /\ OnEngine("PortfolioEngine")
    /\ pc[t] = "all_ret"
    /\ refs' = [refs EXCEPT ![t] = GetAllStocksResult(portfolio_map)]
    /\ Release(t)
    /\ UNCHANGED <<update_callbacks, portfolio_map, ret, summary>>

CallGetPortfolioSummary(t) ==
    /\ OnEngine("PortfolioEngine")
    /\ pc[t] = "idle"
    /\ Invoke(t, [NoCall EXCEPT !.op = "get_portfolio_summary"], "sum_lock")

\* get_portfolio_summary as it would be without `with self.lock:`
SummaryLock_NoLock(t) ==
    /\ OnEngine("PortfolioEngine")
    /\ Goto(t, "sum_lock", "sum_scan")
    /\ i' = [i EXCEPT ![t] = 1]
    /\ acc' = [acc EXCEPT ![t] = NoAcc]
    /\ UNCHANGED <<update_callbacks, portfolio_map, lock, call, ret, refs, summary>>

\* the lock taken, the totals set to 0
SummaryLock(t) ==
    /\ OnEngine("PortfolioEngine")
    /\ Acquire(t, "sum_lock", "sum_scan")
    /\ i' = [i EXCEPT ![t] = 1]
    /\ acc' = [acc EXCEPT ![t] = NoAcc]
    /\ UNCHANGED <<update_callbacks, portfolio_map, call, ret, refs, summary>>

\* one pass of `for ticker, item in self.portfolio_map.items()`
SummaryStep(t) ==
    /\ OnEngine("PortfolioEngine")
    /\ pc[t] = "sum_scan"
    /\ i[t] <= Len(portfolio_map)
    /\ acc' = [acc EXCEPT ![t] = SummaryAdd(acc[t], portfolio_map[i[t]].item)]
    /\ i' = [i EXCEPT ![t] = i[t] + 1]
    /\ UNCHANGED <<update_callbacks, portfolio_map, lock, pc, call, ret, refs, summary>>

\* the loop is over: the returned dict is built
SummaryBuild(t) ==
    /\ OnEngine("PortfolioEngine")
    /\ i[t] > Len(portfolio_map)
    /\ Goto(t, "sum_scan", "sum_ret")
    /\ summary' = [summary EXCEPT ![t] = SummaryResult(acc[t], portfolio_map)]
    /\ UNCHANGED <<update_callbacks, portfolio_map, lock, call, i, acc, ret, refs>>

\* the block is left; what the caller does with the dict is not modelled
SummaryReturn(t) ==
    /\ OnEngine("PortfolioEngine")
    /\ pc[t] = "sum_ret"
    /\ summary' = [summary EXCEPT ![t] = NoSummary]
    /\ Release(t)
    /\ UNCHANGED <<update_callbacks, portfolio_map, ret, refs>>

CallBatchUpdatePrices(t) ==
    /\ OnEngine("PortfolioEngine")
    /\ pc[t] = "idle"
    /\ \E u \in ConcBatches :
        Invoke(t, [NoCall EXCEPT !.op = "batch_update_prices", !.updates = u], "bat_lock")

BatchLock(t) ==
    /\ OnEngine("PortfolioEngine")
    /\ Acquire(t, "bat_lock", "bat_loop")
    /\ i' = [i EXCEPT ![t] = 1]
    /\ UNCHANGED <<update_callbacks, portfolio_map, call, acc, ret, refs, summary>>

\* the entry the loop is at
BatchEntry(t) == call[t].updates[i[t]]

\* `for ticker, price, rate in updates` is over: the block is left
BatchDone(t) ==
    /\ OnEngine("PortfolioEngine")
    /\ pc[t] = "bat_loop"
    /\ i[t] > Len(call[t].updates)
    /\ Release(t)
    /\ UNCHANGED <<update_callbacks, portfolio_map, ret, refs, summary>>

\* `if ticker in self.portfolio_map` fails: the next entry
BatchSkip(t) ==
    /\ OnEngine("PortfolioEngine")
    /\ pc[t] = "bat_loop"
    /\ i[t] <= Len(call[t].updates)
    /\ ~Has(portfolio_map, BatchEntry(t).ticker)
    /\ i' = [i EXCEPT ![t] = i[t] + 1]
    /\ UNCHANGED <<update_callbacks, portfolio_map, lock, pc, call, acc, ret, refs, summary>>

BatchSetPrice(t) ==
    /\ OnEngine("PortfolioEngine")
    /\ pc[t] = "bat_loop"
    /\ i[t] <= Len(call[t].updates)
    /\ Has(portfolio_map, BatchEntry(t).ticker)
    /\ portfolio_map' = SetCurrentPrice(portfolio_map, BatchEntry(t).ticker, BatchEntry(t).price)
    /\ pc' = [pc EXCEPT ![t] = "bat_rate"]
    /\ UNCHANGED <<update_callbacks, lock, call, i, acc, ret, refs, summary>>

BatchSetRate(t) ==
    /\ OnEngine("PortfolioEngine")
    /\ pc[t] = "bat_rate"
    /\ portfolio_map' = SetChangeRate(portfolio_map, BatchEntry(t).ticker, BatchEntry(t).rate)
    /\ IF BuyPricePositive(portfolio_map, BatchEntry(t).ticker)
       THEN /\ pc' = [pc EXCEPT ![t] = "bat_pr"]
            /\ i' = i
       ELSE /\ pc' = [pc EXCEPT ![t] = "bat_loop"]
            /\ i' = [i EXCEPT ![t] = i[t] + 1]
    /\ UNCHANGED <<update_callbacks, lock, call, acc, ret, refs, summary>>

BatchSetProfitRate(t) ==
    /\ OnEngine("PortfolioEngine")
    /\ Goto(t, "bat_pr", "bat_pl")
    /\ portfolio_map' = SetProfitRate(portfolio_map, BatchEntry(t).ticker, BatchEntry(t).price)
    /\ UNCHANGED <<update_callbacks, lock, call, i, acc, ret, refs, summary>>

BatchSetProfitLoss(t) ==
    /\ OnEngine("PortfolioEngine")
    /\ Goto(t, "bat_pl", "bat_loop")
    /\ portfolio_map' = SetProfitLoss(portfolio_map, BatchEntry(t).ticker, BatchEntry(t).price)
    /\ i' = [i EXCEPT ![t] = i[t] + 1]
    /\ UNCHANGED <<update_callbacks, lock, call, acc, ret, refs, summary>>

ConcNext ==
    \E t \in Threads :
        \/ CallAddStock(t) \/ AddStockLock(t) \/ AddStockSet(t)
        \/ CallGetStock(t) \/ GetStockLock(t) \/ GetStockReturn(t)
        \/ CallUpdatePrice(t) \/ UpdateLock(t) \/ UpdateAbsent(t) \/ UpdatePresent(t)
        \/ UpdateSetPrice(t) \/ UpdateSetRate(t) \/ UpdateSetProfitRate(t)
        \/ UpdateSetProfitLoss(t) \/ UpdateReturn(t)
        \/ CallGetAllStocks(t) \/ GetAllStocksLock(t) \/ GetAllStocksReturn(t)
        \/ CallGetPortfolioSummary(t) \/ SummaryLock(t) \/ SummaryStep(t)
        \/ SummaryBuild(t) \/ SummaryReturn(t)
        \/ CallBatchUpdatePrices(t) \/ BatchLock(t) \/ BatchDone(t) \/ BatchSkip(t)
        \/ BatchSetPrice(t) \/ BatchSetRate(t) \/ BatchSetProfitRate(t)
        \/ BatchSetProfitLoss(t)

ConcSpec == Init /\ [][ConcNext]_vars

\* --------------------------------------------------- DirectMemoryEngine
\* A callback is what it does when called: it returns, it raises, or it reads
\* the store through get_data_for_ui.
CallbackKinds == {"ok", "raise", "read"}

\* DirectMemoryEngine(): the store is empty, the lock free, no callback registered
DMInit ==
    /\ engine = "DirectMemoryEngine"
    /\ portfolio_map = <<>>
    /\ lock = 0
    /\ update_callbacks = <<>>
    /\ pc = [t \in Threads |-> "idle"]
    /\ call = [t \in Threads |-> NoCall]
    /\ i = [t \in Threads |-> 0]
    /\ acc = [t \in Threads |-> NoAcc]
    /\ ret = [t \in Threads |-> "none"]
    /\ refs = [t \in Threads |-> <<>>]
    /\ summary = [t \in Threads |-> NoSummary]

\* Where update_and_notify has fetched `item` and the `with` block is not over.
ItemBlock == {"uan_price", "uan_rate", "uan_pr", "uan_pl", "uan_unlock"}

\* The thread whose update_and_notify has the dict stored under ticker as its
\* `item`, 0 when there is none (the lock admits one thread to the block).
HolderOf(ticker) ==
    LET holders == {w \in Threads : /\ pc[w] \in ItemBlock
                                    /\ refs[w] # <<>>
                                    /\ refs[w][1].live
                                    /\ refs[w][1].key = ticker}
    IN IF holders = {} THEN 0 ELSE CHOOSE w \in holders : TRUE

\* DirectMemoryEngine has no add_stock: portfolio_map is a public attribute and
\* its user stores the records, engine.portfolio_map[ticker] = {...}, laid out
\* as update_and_notify reads them.  The statement takes no lock and checks
\* nothing: it runs whatever the engine's calls are doing, and a ticker already
\* there gets a new dict in its place, the old one staying with those who hold it.
SetItemOf(t, holdings) ==
    /\ \E h \in holdings :
          /\ portfolio_map' = Put(portfolio_map, h[1], NewRecord(h[1], "x", 2, h[2]))
          /\ refs' = IF Has(portfolio_map, h[1])
                     THEN RetireHeld(refs, portfolio_map, h[1], HolderOf(h[1]))
                     ELSE refs
    /\ UNCHANGED <<lock, update_callbacks, pc, call, i, acc, ret, summary>>

\* The (ticker, buy_price) of the records the user stores: one ticker with and
\* without a positive buy_price, the other with one.
Holdings == {<<"A", 0>>, <<"A", 2>>, <<"B", 2>>}

\* The thread that runs the statement is in no call of the engine.
SetItem(t) ==
    /\ OnEngine("DirectMemoryEngine")
    /\ pc[t] = "idle"
    /\ SetItemOf(t, Holdings)

\* self.update_callbacks.append(callback): no lock is taken
RegisterUpdateCallback(t) ==
    /\ OnEngine("DirectMemoryEngine")
    /\ pc[t] = "idle"
    /\ Len(update_callbacks) < MaxCallbacks
    /\ \E cb \in CallbackKinds : update_callbacks' = Append(update_callbacks, cb)
    /\ ret' = [ret EXCEPT ![t] = "none"]
    /\ refs' = [refs EXCEPT ![t] = <<>>]
    /\ UNCHANGED <<portfolio_map, lock, pc, call, i, acc, summary>>

\* The (price, rate) update_and_notify is called with.
NotifyTicks == {<<1, 1>>}

CallUpdateAndNotify(t) ==
    /\ OnEngine("DirectMemoryEngine")
    /\ pc[t] = "idle"
    /\ \E tk \in Tickers, tick \in NotifyTicks :
        Invoke(t, [NoCall EXCEPT !.op = "update_and_notify", !.ticker = tk,
                                 !.price = tick[1], !.rate = tick[2]], "uan_lock")

UanLock(t) ==
    /\ OnEngine("DirectMemoryEngine")
    /\ Acquire(t, "uan_lock", "uan_check")
    /\ UNCHANGED <<update_callbacks, portfolio_map, call, i, acc, ret, refs, summary>>

\* `if ticker in self.portfolio_map` fails: nothing is written
UanAbsent(t) ==
    /\ OnEngine("DirectMemoryEngine")
    /\ ~Has(portfolio_map, call[t].ticker)
    /\ Goto(t, "uan_check", "uan_unlock")
    /\ UNCHANGED <<update_callbacks, portfolio_map, lock, call, i, acc, ret, refs, summary>>

\* `if ticker in self.portfolio_map` holds: item = self.portfolio_map[ticker]
UanPresent(t) ==
    /\ OnEngine("DirectMemoryEngine")
    /\ Has(portfolio_map, call[t].ticker)
    /\ Goto(t, "uan_check", "uan_price")
    /\ refs' = [refs EXCEPT ![t] = <<LiveRef(call[t].ticker)>>]
    /\ UNCHANGED <<update_callbacks, portfolio_map, lock, call, i, acc, ret, summary>>

\* The dict `item` names, under its ticker: the stored record, or, once the
\* user has put another dict under the ticker, the replaced dict.
ItemMap(t) ==
    IF refs[t][1].live THEN portfolio_map
    ELSE <<[key |-> call[t].ticker, item |-> refs[t][1].item]>>

\* item[field] = ...: written is the changed ItemMap(t).  The write goes to the
\* store, or to the replaced dict, which everyone who holds it sees change.
ItemWrite(t, written) ==
    IF refs[t][1].live
    THEN /\ portfolio_map' = written
         /\ UNCHANGED refs
    ELSE /\ UNCHANGED portfolio_map
         /\ refs' = [u \in Threads |->
                       [k \in 1..Len(refs[u]) |->
                           IF ~refs[u][k].live /\ refs[u][k].holder = t
                           THEN [refs[u][k] EXCEPT
                                    !.item = ItemOf(written, call[t].ticker)]
                           ELSE refs[u][k]]]

UanSetPrice(t) ==
    /\ OnEngine("DirectMemoryEngine")
    /\ Goto(t, "uan_price", "uan_rate")
    /\ ItemWrite(t, SetCurrentPrice(ItemMap(t), call[t].ticker, call[t].price))
    /\ UNCHANGED <<update_callbacks, lock, call, i, acc, ret, summary>>

UanSetRate(t) ==
    /\ OnEngine("DirectMemoryEngine")
    /\ pc[t] = "uan_rate"
    /\ ItemWrite(t, SetChangeRate(ItemMap(t), call[t].ticker, call[t].rate))
    /\ pc' = [pc EXCEPT ![t] = IF BuyPricePositive(ItemMap(t), call[t].ticker)
                               THEN "uan_pr" ELSE "uan_unlock"]
    /\ UNCHANGED <<update_callbacks, lock, call, i, acc, ret, summary>>

UanSetProfitRate(t) ==
    /\ OnEngine("DirectMemoryEngine")
    /\ Goto(t, "uan_pr", "uan_pl")
    /\ ItemWrite(t, SetProfitRate(ItemMap(t), call[t].ticker, call[t].price))
    /\ UNCHANGED <<update_callbacks, lock, call, i, acc, ret, summary>>

UanSetProfitLoss(t) ==
    /\ OnEngine("DirectMemoryEngine")
    /\ Goto(t, "uan_pl", "uan_unlock")
    /\ ItemWrite(t, SetProfitLoss(ItemMap(t), call[t].ticker, call[t].price))
    /\ UNCHANGED <<update_callbacks, lock, call, i, acc, ret, summary>>

\* The references once thread t writes its `item` no more.
Dropped(rf, t) ==
    [u \in DOMAIN rf |->
        IF u = t THEN <<>>
        ELSE [k \in 1..Len(rf[u]) |->
                 IF rf[u][k].holder = t THEN [rf[u][k] EXCEPT !.holder = 0]
                 ELSE rf[u][k]]]

\* The end of the `with` block as it would be if the callback loop were inside it
UanUnlock_LoopInsideBlock(t) ==
    /\ OnEngine("DirectMemoryEngine")
    /\ Goto(t, "uan_unlock", "uan_notify")
    /\ i' = [i EXCEPT ![t] = 1]
    /\ refs' = Dropped(refs, t)
    /\ UNCHANGED <<update_callbacks, portfolio_map, lock, call, acc, ret, summary>>

\* The `with` block ends: the lock is released, then the callback loop starts;
\* `item` is not used again
UanUnlock(t) ==
    /\ OnEngine("DirectMemoryEngine")
    /\ Goto(t, "uan_unlock", "uan_notify")
    /\ lock' = 0
    /\ i' = [i EXCEPT ![t] = 1]
    /\ refs' = Dropped(refs, t)
    /\ UNCHANGED <<update_callbacks, portfolio_map, call, acc, ret, summary>>

\* `for callback in self.update_callbacks`: the next callback is called
UanInvoke(t) ==
    /\ OnEngine("DirectMemoryEngine")
    /\ i[t] <= Len(update_callbacks)
    /\ Goto(t, "uan_notify", "cb_run")
    /\ UNCHANGED <<update_callbacks, portfolio_map, lock, call, i, acc, ret, refs, summary>>

\* the loop is over: update_and_notify returns None
UanDone(t) ==
    /\ OnEngine("DirectMemoryEngine")
    /\ pc[t] = "uan_notify"
    /\ i[t] > Len(update_callbacks)
    /\ pc' = [pc EXCEPT ![t] = "idle"]
    /\ call' = [call EXCEPT ![t] = NoCall]
    /\ i' = [i EXCEPT ![t] = 0]
    /\ UNCHANGED <<update_callbacks, portfolio_map, lock, acc, ret, refs, summary>>

\* the callback returns: callback() is over, the loop goes on
CallbackReturns(t) ==
    /\ OnEngine("DirectMemoryEngine")
    /\ pc[t] = "cb_run"
    /\ update_callbacks[i[t]] = "ok"
    /\ Goto(t, "cb_run", "uan_notify")
    /\ i' = [i EXCEPT ![t] = i[t] + 1]
    /\ UNCHANGED <<update_callbacks, portfolio_map, lock, call, acc, ret, refs, summary>>

\* the callback raises: nothing catches it, update_and_notify ends with the exception
CallbackRaises(t) ==
    /\ OnEngine("DirectMemoryEngine")
    /\ pc[t] = "cb_run"
    /\ update_callbacks[i[t]] = "raise"
    /\ pc' = [pc EXCEPT ![t] = "idle"]
    /\ ret' = [ret EXCEPT ![t] = "raised"]
    /\ call' = [call EXCEPT ![t] = NoCall]
    /\ i' = [i EXCEPT ![t] = 0]
    /\ UNCHANGED <<update_callbacks, portfolio_map, lock, acc, refs, summary>>

\* the callback calls get_data_for_ui: it waits for the lock
CallbackReads(t) ==
    /\ OnEngine("DirectMemoryEngine")
    /\ pc[t] = "cb_run"
    /\ update_callbacks[i[t]] = "read"
    /\ Goto(t, "cb_run", "cb_lock")
    /\ UNCHANGED <<update_callbacks, portfolio_map, lock, call, i, acc, ret, refs, summary>>

CallbackLock(t) ==
    /\ OnEngine("DirectMemoryEngine")
    /\ Acquire(t, "cb_lock", "cb_read")
    /\ UNCHANGED <<update_callbacks, portfolio_map, call, i, acc, ret, refs, summary>>

\* get_data_for_ui: list(self.portfolio_map.values()), the stored dicts
GetDataForUiPortfolio(m) == [k \in 1..Len(m) |-> LiveRef(m[k].key)]

\* get_data_for_ui: len(self.portfolio_map)
GetDataForUiCount(m) == Len(m)

\* get_data_for_ui inside the callback: "portfolio": list(self.portfolio_map.values())
CallbackRead(t) ==
    /\ OnEngine("DirectMemoryEngine")
    /\ Goto(t, "cb_read", "cb_count")
    /\ refs' = [refs EXCEPT ![t] = GetDataForUiPortfolio(portfolio_map)]
    /\ UNCHANGED <<update_callbacks, portfolio_map, lock, call, i, acc, ret, summary>>

\* "count": len(self.portfolio_map), read from the store as it is now; then
\* get_data_for_ui returns, the callback returns, the loop goes on
CallbackCount(t) ==
    /\ OnEngine("DirectMemoryEngine")
    /\ Goto(t, "cb_count", "uan_notify")
    /\ lock' = 0
    /\ summary' = [summary EXCEPT ![t] =
                      [NoSummary EXCEPT !.count = GetDataForUiCount(portfolio_map)]]
    /\ i' = [i EXCEPT ![t] = i[t] + 1]
    /\ UNCHANGED <<update_callbacks, portfolio_map, call, acc, ret, refs>>

CallGetDataForUi(t) ==
    /\ OnEngine("DirectMemoryEngine")
    /\ pc[t] = "idle"
    /\ Invoke(t, [NoCall EXCEPT !.op = "get_data_for_ui"], "ui_lock")

GetDataForUiLock(t) ==
    /\ OnEngine("DirectMemoryEngine")
    /\ Acquire(t, "ui_lock", "ui_read")
    /\ UNCHANGED <<update_callbacks, portfolio_map, call, i, acc, ret, refs, summary>>

\* "portfolio": list(self.portfolio_map.values())
GetDataForUiRead(t) ==
    /\ OnEngine("DirectMemoryEngine")
    /\ Goto(t, "ui_read", "ui_ret")
    /\ refs' = [refs EXCEPT ![t] = GetDataForUiPortfolio(portfolio_map)]
    /\ UNCHANGED <<update_callbacks, portfolio_map, lock, call, i, acc, ret, summary>>

\* "count": len(self.portfolio_map), read from the store as it is now; the
\* dict is returned
GetDataForUiReturn(t) ==
    /\ OnEngine("DirectMemoryEngine")
    /\ pc[t] = "ui_ret"
    /\ summary' = [summary EXCEPT ![t] =
                      [NoSummary EXCEPT !.count = GetDataForUiCount(portfolio_map)]]
    /\ Release(t)
    /\ UNCHANGED <<update_callbacks, portfolio_map, ret, refs>>

\* The calls and steps of the engine's methods
DMStep(t) ==
        \/ RegisterUpdateCallback(t)
        \/ CallUpdateAndNotify(t) \/ UanLock(t) \/ UanAbsent(t) \/ UanPresent(t)
        \/ UanSetPrice(t)
        \/ UanSetRate(t) \/ UanSetProfitRate(t) \/ UanSetProfitLoss(t) \/ UanUnlock(t)
        \/ UanInvoke(t) \/ UanDone(t)
        \/ CallbackReturns(t) \/ CallbackRaises(t) \/ CallbackReads(t)
        \/ CallbackLock(t) \/ CallbackRead(t) \/ CallbackCount(t)
        \/ CallGetDataForUi(t) \/ GetDataForUiLock(t) \/ GetDataForUiRead(t)
        \/ GetDataForUiReturn(t)

DMNext == \E t \in Threads : SetItem(t) \/ DMStep(t)

DMSpec == DMInit /\ [][DMNext]_vars

\* ------------------------------------------------------- either engine
\* The object is a PortfolioEngine called by one caller, or a
\* DirectMemoryEngine with its threads: each runs the methods of its class.
EngineInit == Init \/ DMInit

EngineNext == Next \/ DMNext

EngineSpec == EngineInit /\ [][EngineNext]_vars

\* =================================================================== claims
\* The entries of a batch that name ticker, and the last of them.
Naming(updates, ticker) == {k \in 1..Len(updates) : updates[k].ticker = ticker}

LastNaming(updates, ticker) ==
    CHOOSE k \in Naming(updates, ticker) : \A j \in Naming(updates, ticker) : j <= k

\* C1: after update_price returns true the record holds the new price and
\* profit_loss = (current_price - buy_price) * quantity, whatever buy_price is
\* (for buy_price = 0, profit_loss = price * quantity).
C1_ProfitLossUnconditional ==
    \A t \in Callers :
        (call[t].op = "update_price" /\ ret[t] = "true") =>
            LET item == ItemOf(portfolio_map, call[t].ticker)
            IN /\ item.current_price = call[t].price
               /\ item.profit_loss =
                    (call[t].price - item.buy_price) * item.quantity

\* C6: update_price on a ticker that is not in the store returns false and
\* leaves the mapping (keys, order, every field of every record) as it was.
C6_UpdateAbsentIsNoop ==
    [][\A t \in Callers :
          (call'[t].op = "update_price" /\ ~Has(portfolio_map, call'[t].ticker)) =>
              /\ ret'[t] = "false"
              /\ portfolio_map' = portfolio_map]_vars

\* C6 witness: update_price has returned false for an absent ticker on a store
\* that holds another record.
C6_Witness ==
    \E t \in Callers :
        /\ call[t].op = "update_price"
        /\ ret[t] = "false"
        /\ ~Has(portfolio_map, call[t].ticker)
        /\ Len(portfolio_map) > 0

\* C7: a batch changes exactly the records its entries name among the present
\* ones: each gets the price and rate of the last entry naming it, with the
\* derived fields recomputed from that price when buy_price > 0; no key is
\* added or moved, and every record the batch does not name stays as it was.
C7_BatchFrame ==
    [][\A t \in Callers :
          call'[t].op = "batch_update_prices" =>
              LET u == call'[t].updates IN
              /\ Len(portfolio_map') = Len(portfolio_map)
              /\ \A k \in 1..Len(portfolio_map) :
                    LET old == portfolio_map[k].item
                        new == portfolio_map'[k].item
                        tk == portfolio_map[k].key
                    IN /\ portfolio_map'[k].key = tk
                       /\ IF Naming(u, tk) = {}
                          THEN new = old
                          ELSE LET e == u[LastNaming(u, tk)] IN
                               /\ new.current_price = e.price
                               /\ new.change_rate = e.rate
                               /\ old.buy_price > 0 =>
                                     /\ new.profit_rate = ProfitRate(e.price, old.buy_price)
                                     /\ new.profit_loss =
                                          (e.price - old.buy_price) * old.quantity
                               /\ [new EXCEPT !.current_price = 0, !.change_rate = 0,
                                              !.profit_rate = Zero, !.profit_loss = 0]
                                  = [old EXCEPT !.current_price = 0, !.change_rate = 0,
                                                !.profit_rate = Zero, !.profit_loss = 0]]_vars

\* C7 witness: a batch of two entries, one for a present ticker and one for an
\* absent one, has run: the present record carries its entry's price.
C7_Witness ==
    \E t \in Callers :
        /\ call[t].op = "batch_update_prices"
        /\ Len(call[t].updates) = 2
        /\ \E j, k \in 1..2 :
              /\ ~Has(portfolio_map, call[t].updates[j].ticker)
              /\ Has(portfolio_map, call[t].updates[k].ticker)
              /\ ItemOf(portfolio_map, call[t].updates[k].ticker).current_price
                    = call[t].updates[k].price
              /\ ItemOf(portfolio_map, call[t].updates[k].ticker).buy_price > 0

\* ------------------------------------------------ claims on concurrency
\* Where a thread is inside a `with self.lock:` block.
UpdateBlock == {"upd_check", "upd_price", "upd_rate", "upd_pr", "upd_pl", "upd_ret"}

BatchBlock == {"bat_loop", "bat_rate", "bat_pr", "bat_pl"}

ReadBlock == {"get_ret", "all_ret", "sum_scan", "sum_ret"}

UanBlock == {"uan_check", "uan_price", "uan_rate", "uan_pr", "uan_pl", "uan_unlock"}

WriteBlock == UpdateBlock \cup BatchBlock \cup UanBlock \cup {"add_set"}

\* The (price, rate) pairs concurrent callers pass.
AllTicks == ConcTicks \cup {<<MaxPrice, r>> : r \in Rates}

\* Every price field of the record comes from one update, or none has run.
Coherent(item) ==
    \/ /\ item.current_price = 0 /\ item.change_rate = 0
       /\ item.profit_rate = Zero /\ item.profit_loss = 0
    \/ \E tick \in AllTicks :
          /\ item.current_price = tick[1]
          /\ item.change_rate = tick[2]
          /\ IF item.buy_price > 0
             THEN /\ item.profit_rate = ProfitRate(tick[1], item.buy_price)
                  /\ item.profit_loss = (tick[1] - item.buy_price) * item.quantity
             ELSE /\ item.profit_rate = Zero /\ item.profit_loss = 0

\* The record under the ticker of t's call holds what t's call passed.
HoldsOwnUpdate(t) ==
    LET item == ItemOf(portfolio_map, call[t].ticker) IN
    /\ item.current_price = call[t].price
    /\ item.change_rate = call[t].rate
    /\ item.buy_price > 0 =>
          /\ item.profit_rate = ProfitRate(call[t].price, item.buy_price)
          /\ item.profit_loss = (call[t].price - item.buy_price) * item.quantity

\* C2: while a caller holds what get_stock or get_all_stocks returned, the
\* records it was given never change: no step of another caller alters the
\* fields of a record reached through a reference handed out earlier.
C2_ReadsAreSnapshots ==
    [][\A t \in Threads :
          (pc[t] = "idle" /\ pc'[t] = "idle" /\ Len(refs'[t]) = Len(refs[t])) =>
              \A k \in 1..Len(refs[t]) :
                  Deref(portfolio_map', refs'[t][k]) = Deref(portfolio_map, refs[t][k])]_vars

\* A batch that has applied part of its entries: an entry half-written, or an
\* entry for a present ticker written while another is still to come.
BatchPartial(b) ==
    /\ call[b].op = "batch_update_prices"
    /\ pc[b] \in BatchBlock
    /\ \/ pc[b] \in {"bat_rate", "bat_pr", "bat_pl"}
       \/ /\ \E k \in 1..Len(call[b].updates) :
                k < i[b] /\ Has(portfolio_map, call[b].updates[k].ticker)
          /\ \E k \in 1..Len(call[b].updates) :
                k >= i[b] /\ Has(portfolio_map, call[b].updates[k].ticker)

\* Thread r can look at a record the batch of b names: it holds the dict, which
\* get_stock or get_all_stocks handed back.
HoldsBatchRecord(r, b) ==
    \E k \in 1..Len(refs[r]) :
        /\ refs[r][k].live
        /\ \E j \in 1..Len(call[b].updates) :
              call[b].updates[j].ticker = refs[r][k].key

\* C3: while a batch is partly applied no reader can see the records it names:
\* no reader (get_stock, get_all_stocks, get_portfolio_summary) is inside its
\* locked block, and none holds a record of the batch that a read returned.  A
\* reader sees none of a batch or all of it, and never an entry half-written.
C3_BatchAtomicForReaders ==
    \A r \in Threads, b \in Threads :
        (r # b /\ BatchPartial(b)) =>
            /\ pc[r] \notin ReadBlock
            /\ ~HoldsBatchRecord(r, b)

\* C8: an update_price on a present ticker writes that ticker's record and no
\* other, returns true, and when it returns the record holds the price, the
\* rate and the derived fields of that very call.
C8_DisjointUpdates ==
    /\ [](\A t \in Threads : pc[t] = "upd_ret" => HoldsOwnUpdate(t))
    /\ [][\A t \in Threads :
             /\ (pc[t] \in UpdateBlock /\ pc'[t] # pc[t]) =>
                   /\ Len(portfolio_map') = Len(portfolio_map)
                   /\ \A k \in 1..Len(portfolio_map) :
                         portfolio_map[k].key # call[t].ticker =>
                             portfolio_map'[k] = portfolio_map[k]
             /\ (pc[t] = "upd_check" /\ Has(portfolio_map, call[t].ticker)
                 /\ pc'[t] # pc[t]) => pc'[t] = "upd_price"
             /\ (pc[t] = "upd_ret" /\ pc'[t] # pc[t]) => ret'[t] = "true"]_vars

\* C8 witness: one caller has finished writing its update of A and is about to
\* return while another caller's update of B, called meanwhile, waits.
C8_Witness ==
    \E t \in Threads, u \in Threads :
        /\ pc[t] = "upd_ret" /\ pc[u] = "upd_lock"
        /\ call[t].ticker # call[u].ticker
        /\ Has(portfolio_map, call[t].ticker)
        /\ Has(portfolio_map, call[u].ticker)

\* C9: updates are serialized: a caller inside update_price holds the lock
\* alone, the record holds that caller's values when it returns (the last to
\* take the lock wins), and whenever no writer is inside its block every record
\* has all its price fields from one single update.
C9_SameTickerSerialized ==
    /\ \A t \in Threads :
          pc[t] \in UpdateBlock =>
              /\ lock = t
              /\ \A u \in Threads \ {t} : pc[u] \notin (WriteBlock \cup ReadBlock)
    /\ \A t \in Threads : pc[t] = "upd_ret" => HoldsOwnUpdate(t)
    /\ (\A t \in Threads : pc[t] \notin WriteBlock) =>
          \A k \in 1..Len(portfolio_map) : Coherent(portfolio_map[k].item)

\* C9 witness: a caller is about to return from an update of a ticker while
\* another caller waits with an update of the same ticker and another price.
C9_Witness ==
    \E t \in Threads, u \in Threads :
        /\ pc[t] = "upd_ret" /\ pc[u] = "upd_lock"
        /\ call[t].ticker = call[u].ticker
        /\ call[t].price # call[u].price
        /\ ItemOf(portfolio_map, call[t].ticker).current_price = call[t].price

\* The totals of a store, summed record by record.
RECURSIVE CostUpTo(_, _)
CostUpTo(m, k) ==
    IF k = 0 THEN 0
    ELSE m[k].item.buy_price * m[k].item.quantity + CostUpTo(m, k - 1)

RECURSIVE ValueUpTo(_, _)
ValueUpTo(m, k) ==
    IF k = 0 THEN 0
    ELSE m[k].item.current_price * m[k].item.quantity + ValueUpTo(m, k - 1)

\* C10: the dict get_portfolio_summary is about to return holds the totals of
\* the store as it stands at that instant: cost, value, profit and count all
\* describe one and the same state of the records.
C10_SummarySingleInstant ==
    \A t \in Threads :
        pc[t] = "sum_ret" =>
            /\ summary[t].total_cost = CostUpTo(portfolio_map, Len(portfolio_map))
            /\ summary[t].total_value = ValueUpTo(portfolio_map, Len(portfolio_map))
            /\ summary[t].total_profit = summary[t].total_value - summary[t].total_cost
            /\ summary[t].count = Len(portfolio_map)

\* C10 witness: a summary of two priced records is about to be returned while a
\* writer called meanwhile waits for the lock.
C10_Witness ==
    \E t \in Threads, w \in Threads :
        /\ pc[t] = "sum_ret"
        /\ summary[t].count = 2
        /\ summary[t].total_value > 0
        /\ pc[w] \in {"upd_lock", "bat_lock", "add_lock"}

\* ------------------------------------------------ claims on notification
\* C4: when a callback raises, the loop goes on to the next callback, the
\* exception does not reach the caller of update_and_notify, and the store
\* stays as committed.
C4_ObserverFailureIsolated ==
    [][\A t \in Threads :
          (pc[t] = "cb_run" /\ update_callbacks[i[t]] = "raise" /\ pc'[t] # pc[t]) =>
              /\ pc'[t] = "uan_notify"
              /\ i'[t] = i[t] + 1
              /\ ret'[t] # "raised"
              /\ portfolio_map' = portfolio_map]_vars

\* The record as the user stores it: no update has been written to it.
Unpriced(item) ==
    /\ item.current_price = 0 /\ item.change_rate = 0
    /\ item.profit_rate = Zero /\ item.profit_loss = 0

\* The record holds the whole update of t's call.
HoldsUpdateOf(item, t) ==
    /\ item.current_price = call[t].price
    /\ item.change_rate = call[t].rate
    /\ IF item.buy_price > 0
       THEN /\ item.profit_rate = ProfitRate(call[t].price, item.buy_price)
            /\ item.profit_loss = (call[t].price - item.buy_price) * item.quantity
       ELSE item.profit_rate = Zero /\ item.profit_loss = 0

\* Where a thread holds the lock in DirectMemoryEngine.
LockedBlock == UanBlock \cup {"cb_read", "cb_count", "ui_read", "ui_ret"}

\* C5: no callback runs while the thread that called it holds the lock.  When
\* the block of update_and_notify ends, the dict it wrote holds the whole
\* update, and the callbacks start after the release.  A callback that calls
\* get_data_for_ui never waits for its own caller: the lock is free or held by
\* another thread inside a block.  Once it has the lock no update is in
\* progress, and every record it is handed is whole: the record of its
\* update's ticker holds the whole update (every update_and_notify passes the
\* same price and rate), or is a dict the user has stored since, bypassing the
\* lock.
C5_CallbacksOutsideLock ==
    \A t \in Threads :
        /\ pc[t] \in {"uan_notify", "cb_run", "cb_lock"} => lock # t
        /\ (pc[t] = "cb_lock" /\ lock # 0) => pc[lock] \in LockedBlock
        /\ (pc[t] = "uan_unlock" /\ refs[t] # <<>>) =>
              HoldsUpdateOf(Deref(portfolio_map, refs[t][1]), t)
        /\ pc[t] \in {"cb_read", "cb_count"} =>
              /\ lock = t
              /\ \A u \in Threads \ {t} : pc[u] \notin UanBlock
        /\ pc[t] = "cb_count" =>
              \A k \in 1..Len(refs[t]) :
                  LET item == Deref(portfolio_map, refs[t][k]) IN
                  /\ Coherent(item)
                  /\ item.ticker = call[t].ticker =>
                        HoldsUpdateOf(item, t) \/ Unpriced(item)

\* C5 witness: a callback has been handed the records under the lock, and the
\* record of its update's ticker holds the update, derived fields included.
C5_Witness ==
    \E t \in Threads :
        /\ pc[t] = "cb_count"
        /\ \E k \in 1..Len(refs[t]) :
              LET item == Deref(portfolio_map, refs[t][k]) IN
              /\ item.ticker = call[t].ticker
              /\ item.buy_price > 0
              /\ item.current_price = call[t].price
              /\ item.profit_loss = (call[t].price - item.buy_price) * item.quantity

\* ------------------------------------------------ claims on the summary
\* C11: get_portfolio_summary returns total_cost = the sum of buy_price *
\* quantity, total_value = the sum of current_price * quantity, total_profit =
\* total_value - total_cost and count = the number of records; total_return is
\* 0 whenever total_cost <= 0, and on the empty store all five are 0.
C11_SummaryTotals ==
    \A t \in Callers :
        call[t].op = "get_portfolio_summary" =>
            /\ summary[t].total_cost = CostUpTo(portfolio_map, Len(portfolio_map))
            /\ summary[t].total_value = ValueUpTo(portfolio_map, Len(portfolio_map))
            /\ summary[t].total_profit = summary[t].total_value - summary[t].total_cost
            /\ summary[t].count = Len(portfolio_map)
            /\ summary[t].total_cost <= 0 => summary[t].total_return = Zero
            /\ summary[t].total_cost > 0 =>
                  summary[t].total_return[1] * summary[t].total_cost =
                      (summary[t].total_value - summary[t].total_cost) * 100
                          * summary[t].total_return[2]
            /\ Len(portfolio_map) = 0 => summary[t] = NoSummary

\* C11 witness: a summary of two records of which one has a negative cost,
\* one is priced, and the total cost is not positive.
C11_Witness ==
    \E t \in Callers :
        /\ call[t].op = "get_portfolio_summary"
        /\ summary[t].count = 2
        /\ summary[t].total_cost <= 0
        /\ summary[t].total_value > 0
        /\ \E k \in 1..Len(portfolio_map) : portfolio_map[k].item.buy_price > 0

\* ------------------------------------------- claims on the derived fields
\* C12: a record whose buy_price is <= 0 has profit_rate = 0 after any sequence
\* of updates and batch updates, and update_price on it returns true with the
\* new price stored.
C12_NonPositiveCostBasis ==
    /\ \A k \in 1..Len(portfolio_map) :
          portfolio_map[k].item.buy_price <= 0 =>
              portfolio_map[k].item.profit_rate = Zero
    /\ \A t \in Callers :
          (/\ call[t].op = "update_price"
           /\ Has(portfolio_map, call[t].ticker)
           /\ ItemOf(portfolio_map, call[t].ticker).buy_price <= 0) =>
              /\ ret[t] = "true"
              /\ ItemOf(portfolio_map, call[t].ticker).current_price = call[t].price
              /\ ItemOf(portfolio_map, call[t].ticker).change_rate = call[t].rate

\* C12 witness: update_price has returned true for a positive price on a record
\* with a negative buy_price.
C12_Witness ==
    \E t \in Callers :
        /\ call[t].op = "update_price"
        /\ ret[t] = "true"
        /\ call[t].price > 0
        /\ ItemOf(portfolio_map, call[t].ticker).buy_price < 0
        /\ ItemOf(portfolio_map, call[t].ticker).current_price = call[t].price

\* C13: for a record with buy_price > 0, after update_price with price p the
\* stored profit_rate is (p / buy_price - 1) * 100, that is profit_rate *
\* buy_price = (p - buy_price) * 100; p = 0 gives -100 like any other price.
C13_ProfitRateFormula ==
    \A t \in Callers :
        (/\ call[t].op = "update_price"
         /\ ret[t] = "true"
         /\ ItemOf(portfolio_map, call[t].ticker).buy_price > 0) =>
            LET item == ItemOf(portfolio_map, call[t].ticker) IN
            /\ item.profit_rate[2] > 0
            /\ item.profit_rate[1] * item.buy_price =
                  (call[t].price - item.buy_price) * 100 * item.profit_rate[2]
            /\ call[t].price = 0 => item.profit_rate = <<-100, 1>>

\* C13 witness: update_price with price 0 has returned true on a record with a
\* positive buy_price, and the record holds the rate -100.
C13_Witness ==
    \E t \in Callers :
        /\ call[t].op = "update_price"
        /\ ret[t] = "true"
        /\ call[t].price = 0
        /\ ItemOf(portfolio_map, call[t].ticker).buy_price > 0
        /\ ItemOf(portfolio_map, call[t].ticker).profit_rate = <<-100, 1>>

\* ------------------------------------------- claims on the callback loop
\* Where a thread is between the start and the end of update_and_notify's loop.
NotifyPhase == {"uan_notify", "cb_run", "cb_lock", "cb_read", "cb_count"}

\* C14: a notification pass calls the registered callbacks one at a time in
\* registration order, each registration once (a callback registered twice is
\* called twice), and the pass ends only when every registration has been
\* called.
C14_AllObserversInOrder ==
    [][\A t \in Threads :
          /\ (pc[t] = "uan_unlock" /\ pc'[t] # pc[t]) =>
                (pc'[t] = "uan_notify" /\ i'[t] = 1)
          /\ (pc[t] # "cb_run" /\ pc'[t] = "cb_run") =>
                /\ pc[t] = "uan_notify"
                /\ i'[t] = i[t]
                /\ i[t] \in 1..Len(update_callbacks)
          /\ (pc[t] \in NotifyPhase /\ pc'[t] \in NotifyPhase) =>
                /\ i'[t] \in {i[t], i[t] + 1}
                /\ i'[t] = i[t] + 1 <=> (pc[t] # "uan_notify" /\ pc'[t] = "uan_notify")
          /\ (pc[t] \in NotifyPhase /\ pc'[t] = "idle") =>
                i[t] = Len(update_callbacks) + 1]_vars

\* C20: update_and_notify on a ticker that is not in the store writes nothing
\* and still runs a full pass: every registered callback is called, once per
\* registration, before the call ends.
C20_PassWithoutMutation ==
    [][\A t \in Threads :
          (/\ call[t].op = "update_and_notify"
           /\ ~Has(portfolio_map, call[t].ticker)
           /\ pc'[t] # pc[t]) =>
              /\ portfolio_map' = portfolio_map
              /\ pc[t] = "uan_check" => pc'[t] = "uan_unlock"
              /\ pc[t] = "uan_unlock" => (pc'[t] = "uan_notify" /\ i'[t] = 1)
              /\ (pc[t] = "uan_notify" /\ i[t] <= Len(update_callbacks)) =>
                    pc'[t] = "cb_run"
              /\ pc'[t] = "idle" =>
                    (pc[t] = "uan_notify" /\ i[t] = Len(update_callbacks) + 1)]_vars

\* --------------------------------------------- claims on insert and frame
\* C15: add_stock on a ticker already in the store replaces its record in
\* place: one record for the ticker, the size and the order of the store as
\* before, the record made of the new name, quantity and buy_price with the
\* four price fields 0, and every other record unchanged.
C15_InsertOverwrites ==
    [][\A t \in Callers :
          (call'[t].op = "add_stock" /\ Has(portfolio_map, call'[t].ticker)) =>
              /\ Len(portfolio_map') = Len(portfolio_map)
              /\ Cardinality({k \in 1..Len(portfolio_map') :
                                 portfolio_map'[k].key = call'[t].ticker}) = 1
              /\ \A k \in 1..Len(portfolio_map) :
                    /\ portfolio_map'[k].key = portfolio_map[k].key
                    /\ portfolio_map[k].key # call'[t].ticker =>
                          portfolio_map'[k].item = portfolio_map[k].item
                    /\ portfolio_map[k].key = call'[t].ticker =>
                          portfolio_map'[k].item =
                              [ticker |-> call'[t].ticker,
                               name |-> call'[t].name,
                               quantity |-> call'[t].quantity,
                               buy_price |-> call'[t].buy_price,
                               current_price |-> 0,
                               change_rate |-> 0,
                               profit_rate |-> Zero,
                               profit_loss |-> 0]]_vars

\* C15 witness: the last call was add_stock on the ticker of the first of two
\* records, which therefore was in the store already; the second record is
\* priced and the first holds the arguments of the call.
C15_Witness ==
    \E t \in Callers :
        /\ call[t].op = "add_stock"
        /\ Len(portfolio_map) = 2
        /\ portfolio_map[1].key = call[t].ticker
        /\ portfolio_map[1].item.name = call[t].name
        /\ portfolio_map[1].item.current_price = 0
        /\ portfolio_map[2].item.current_price > 0

\* The fields of a record that only add_stock sets.
StaticFields(item) == <<item.ticker, item.name, item.quantity, item.buy_price>>

\* C16: price updates (update_price, batch_update_prices, update_and_notify)
\* change neither the ticker, the name, the quantity nor the buy_price of any
\* record and remove no record: the keys of the store stay in place and only
\* grow, each record's ticker is its key, and the static fields of a record
\* change only by an insert of its ticker (add_stock; for DirectMemoryEngine,
\* which has none, the user's store into portfolio_map, a step of no method).
\* No step of update_and_notify's block changes them, in the store or in the
\* dict it writes.
C16_UpdatesKeepIdentity ==
    /\ [](\A k \in 1..Len(portfolio_map) :
             portfolio_map[k].item.ticker = portfolio_map[k].key)
    /\ [][/\ Len(portfolio_map') >= Len(portfolio_map)
          /\ \A k \in 1..Len(portfolio_map) :
                /\ portfolio_map'[k].key = portfolio_map[k].key
                /\ StaticFields(portfolio_map'[k].item) # StaticFields(portfolio_map[k].item) =>
                      \/ \E t \in Callers :
                            /\ call'[t].op = "add_stock"
                            /\ call'[t].ticker = portfolio_map[k].key
                      \/ /\ engine = "DirectMemoryEngine"
                         /\ pc' = pc
          /\ \A t \in Callers :
                call'[t].op \in {"update_price", "batch_update_prices"} =>
                    /\ Len(portfolio_map') = Len(portfolio_map)
                    /\ \A k \in 1..Len(portfolio_map) :
                          StaticFields(portfolio_map'[k].item) =
                              StaticFields(portfolio_map[k].item)
          /\ \A t \in Threads :
                (pc[t] \in UanBlock /\ pc'[t] # pc[t]) =>
                    /\ Len(portfolio_map') = Len(portfolio_map)
                    /\ \A k \in 1..Len(portfolio_map) :
                          StaticFields(portfolio_map'[k].item) =
                              StaticFields(portfolio_map[k].item)
                    /\ (refs[t] # <<>> /\ refs'[t] # <<>>) =>
                          StaticFields(Deref(portfolio_map', refs'[t][1])) =
                              StaticFields(Deref(portfolio_map, refs[t][1]))]_vars

\* C16 witness: update_and_notify has written the whole update, derived fields
\* included, to a stored record, which still holds the name, the quantity and
\* the buy_price it was stored with.
C16_Witness ==
    \E t \in Threads :
        /\ pc[t] = "uan_unlock"
        /\ refs[t] # <<>>
        /\ refs[t][1].live
        /\ LET item == ItemOf(portfolio_map, call[t].ticker) IN
           /\ item.current_price = call[t].price
           /\ item.profit_loss = (call[t].price - 2) * 2
           /\ item.ticker = call[t].ticker
           /\ item.name = "x"
           /\ item.quantity = 2
           /\ item.buy_price = 2

\* C17: get_stock and get_all_stocks leave the store as it is, and the same
\* read repeated with no call in between returns the same references to the
\* same records with the same contents.
C17_ReadsIdempotent ==
    [][\A t \in Callers :
          /\ call'[t].op \in {"get_stock", "get_all_stocks"} =>
                portfolio_map' = portfolio_map
          /\ (call[t].op \in {"get_stock", "get_all_stocks"} /\ call'[t] = call[t]) =>
                /\ refs'[t] = refs[t]
                /\ \A k \in 1..Len(refs[t]) :
                      Deref(portfolio_map', refs'[t][k]) = Deref(portfolio_map, refs[t][k])]_vars

\* C17 witness: get_all_stocks has returned the references to two records, one
\* of them priced.
C17_Witness ==
    \E t \in Callers :
        /\ call[t].op = "get_all_stocks"
        /\ Len(refs[t]) = 2
        /\ Len(portfolio_map) = 2
        /\ \A k \in 1..2 : refs[t][k].live /\ refs[t][k].key = portfolio_map[k].key
        /\ Deref(portfolio_map, refs[t][1]).current_price > 0

\* ------------------------------------------------ claims on equivalence
\* update_price called for each entry of updates, in list order.
RECURSIVE UpdatesInOrder(_, _)
UpdatesInOrder(m, updates) ==
    IF updates = <<>> THEN m
    ELSE UpdatesInOrder(
             UpdatePriceEffect(m, Head(updates).ticker, Head(updates).price,
                               Head(updates).rate),
             Tail(updates))

\* C19: batch_update_prices(updates) leaves the store in the state reached by
\* update_price(ticker, price, rate) for each entry in list order, so the last
\* entry for a ticker named several times gives the record its price, rate and
\* derived fields.
C19_BatchIsSequenceOfUpdates ==
    [][\A t \in Callers :
          call'[t].op = "batch_update_prices" =>
              /\ portfolio_map' = UpdatesInOrder(portfolio_map, call'[t].updates)
              /\ \A tk \in Keys(portfolio_map) :
                    Naming(call'[t].updates, tk) # {} =>
                        /\ ItemOf(portfolio_map', tk).current_price =
                              call'[t].updates[LastNaming(call'[t].updates, tk)].price
                        /\ ItemOf(portfolio_map', tk).change_rate =
                              call'[t].updates[LastNaming(call'[t].updates, tk)].rate]_vars

\* C19 witness: a batch of two entries for one present ticker with different
\* prices has run, and the record holds the price and the derived fields of
\* the second entry.
C19_Witness ==
    \E t \in Callers :
        /\ call[t].op = "batch_update_prices"
        /\ Len(call[t].updates) = 2
        /\ call[t].updates[1].ticker = call[t].updates[2].ticker
        /\ call[t].updates[1].price # call[t].updates[2].price
        /\ Has(portfolio_map, call[t].updates[2].ticker)
        /\ LET item == ItemOf(portfolio_map, call[t].updates[2].ticker) IN
           /\ item.buy_price > 0
           /\ item.current_price = call[t].updates[2].price
           /\ item.profit_loss = (call[t].updates[2].price - item.buy_price) * item.quantity

\* ------------------------------------------------------ fair scheduling
\* The steps of thread t that wait for the lock.
ConcLockStep(t) ==
    \/ AddStockLock(t) \/ GetStockLock(t) \/ UpdateLock(t)
    \/ GetAllStocksLock(t) \/ SummaryLock(t) \/ BatchLock(t)

\* The steps of thread t inside a `with self.lock:` block.
ConcBlockStep(t) ==
    \/ AddStockSet(t) \/ GetStockReturn(t)
    \/ UpdateAbsent(t) \/ UpdatePresent(t) \/ UpdateSetPrice(t) \/ UpdateSetRate(t)
    \/ UpdateSetProfitRate(t) \/ UpdateSetProfitLoss(t) \/ UpdateReturn(t)
    \/ GetAllStocksReturn(t)
    \/ SummaryStep(t) \/ SummaryBuild(t) \/ SummaryReturn(t)
    \/ BatchDone(t) \/ BatchSkip(t) \/ BatchSetPrice(t) \/ BatchSetRate(t)
    \/ BatchSetProfitRate(t) \/ BatchSetProfitLoss(t)

\* Every thread that can run does run: a thread inside a block goes on, and a
\* thread waiting for the lock takes it if the lock stays free.  threading.Lock
\* promises no order among those who wait: a lock that is free again and again
\* may go to another caller every time.
FairConcSpec ==
    /\ ConcSpec
    /\ \A t \in Threads : WF_vars(ConcBlockStep(t))
    /\ \A t \in Threads : WF_vars(ConcLockStep(t))

\* C18: under fair scheduling every call that has started returns: a thread
\* inside add_stock, get_stock, update_price, get_all_stocks,
\* get_portfolio_summary or batch_update_prices is eventually idle again and
\* does not hold the lock; no caller waits for the lock forever.
C18_CallsReturn ==
    \A t \in Threads : (pc[t] # "idle") ~> (pc[t] = "idle" /\ lock # t)

=============================================================================
